---- MODULE Spec2Model ----
(***************************************************************************)
(* A model of interface-inspector.  The repository holds three programs:   *)
(*   "inspect"  src/unnamed/part_001 lines 1-234: the syntax-only scanner   *)
(*              that takes -code and -interface, with a done-signal on the  *)
(*              interface aggregator;                                       *)
(*   "list"     src/unnamed/part_001 lines 236-404: the first scanner, that *)
(*              lists every interface and struct of a directory;            *)
(*   "query"    src/main.go: the type-checked query over loaded packages.   *)
(* The two scanners share one state machine (Spec), the variable prog       *)
(* saying which of them runs; the query is a second one (SpecQuery).  A     *)
(* third one (SpecCheck) applies the two satisfaction checks of the         *)
(* repository, implements of the list program and types.Implements as the  *)
(* query calls it, to one interface and one struct type.                    *)
(***************************************************************************)
EXTENDS Integers, Sequences, FiniteSets, TLC

VARIABLES
    prog,           \* "inspect" | "list" | "query": the program that runs
    tree,           \* the entries filepath.Walk visits, in walk order
    interfaceName,  \* the -interface flag ("" in the list program)
    mainPc,         \* position of the main goroutine
    walkIdx,        \* next entry of tree the walk visits
    writeWg,        \* the WaitGroup counter
    task,           \* task[i]: the goroutine started for tree[i]
    ifacesClosed,   \* close(ifacesCh) has run
    structClosed,   \* close(structCh) has run
    ifaceAgg,       \* the "aggregate interfaces" goroutine
    structAgg,      \* the "aggregate structs" goroutine
    errLog,         \* the "log parse errors" goroutine
    interfaces,     \* []interfaceResult
    interfacesMap,  \* map[string]bool (list program)
    structs,        \* []structResult
    structsMap,     \* map[string]bool
    errLines,       \* the "error parsing" lines printed so far
    mainOut,        \* the lines main printed so far
    exitCode,       \* -1 while the process runs, else its exit status
    ifaceRecv,      \* history: what the interface aggregator received
    structRecv,     \* history: what the struct aggregator received
    errSent,        \* history: errSent[i] parseErrors sent for tree[i]
    pkgs,           \* query: what packages.Load returned
    loadErr,        \* query: whether packages.Load returned an error
    packageName,    \* query: the -package flag
    packageDirectory, \* query: the -package_dir flag
    iface,          \* query: what findInterface returned
    strcts,         \* query: what findStrcts returned
    strctsImplementingIface, \* query: what getStrctsImplementingIface returned
    checkIface,     \* check: the interface handed to the satisfaction checks
    checkStrct,     \* check: the struct type handed to them
    naiveRes,       \* check: outcome of implements (part_001), "" before
    typesRes        \* check: outcome of types.Implements (main.go), "" before

scanVars == <<prog, tree, interfaceName, mainPc, walkIdx, writeWg, task,
              ifacesClosed, structClosed, ifaceAgg, structAgg, errLog,
              interfaces, interfacesMap, structs, structsMap, errLines,
              mainOut, exitCode, ifaceRecv, structRecv, errSent>>

queryVars == <<pkgs, loadErr, packageName, packageDirectory, iface, strcts,
               strctsImplementingIface>>

checkVars == <<checkIface, checkStrct, naiveRes, typesRes>>

vars == <<scanVars, queryVars, checkVars>>

----------------------------------------------------------------------------
(* Bounds *)

MaxFiles == 2

----------------------------------------------------------------------------
(* Inputs of the scanners *)

\* A top-level type declaration as ast.Inspect meets it.  idents says, for
\* an interface, whether every parameter and result type of its methods is a
\* plain identifier (string, error) and not, say, []byte or *T.
IfaceDecl(n, idents) == [kind |-> "interface", name |-> n, idents |-> idents]
StructDecl(n) == [kind |-> "struct", name |-> n, idents |-> TRUE]

\* What parser.ParseFile hands back for a file: no error and the file's AST;
\* a syntax error and the partial AST of what did parse; or, for a file that
\* cannot be read, an error and a nil AST.
GoFile(p, ds) == [kind |-> "go", parse |-> p, decls |-> ds]

\* The entries a walk can meet: .go files, entries the callback skips
\* (directories, other extensions), and entries the walk reports an error for.
Entries ==
    { GoFile("ok", <<StructDecl("S")>>),
      GoFile("ok", <<IfaceDecl("I", TRUE), StructDecl("S")>>),
      GoFile("ok", <<IfaceDecl("K", TRUE), StructDecl("T")>>),
      GoFile("ok", <<IfaceDecl("I", FALSE)>>),
      GoFile("syntax", <<StructDecl("S")>>),
      GoFile("unreadable", <<>>),
      [kind |-> "skip", parse |-> "ok", decls |-> <<>>],
      [kind |-> "walkerr", parse |-> "ok", decls |-> <<>>] }

Trees == UNION { [1..n -> Entries] : n \in 1..MaxFiles }

InterfaceNames == {"I", "J"}

Files == 1..Len(tree)

----------------------------------------------------------------------------
(* The scanners: state after main has made its channels and started the    *)
(* three reader goroutines, before filepath.Walk.                          *)

Idle == [pc |-> "recv", cur |-> <<>>]

InitScan ==
    /\ prog \in {"inspect", "list"}
    /\ tree \in Trees
    /\ interfaceName \in (IF prog = "inspect" THEN InterfaceNames ELSE {""})
    /\ mainPc = "walk"
    /\ walkIdx = 1
    /\ writeWg = 0
    /\ task = [i \in Files |-> [pc |-> "none", k |-> 1]]
    /\ ifacesClosed = FALSE
    /\ structClosed = FALSE
    /\ ifaceAgg = Idle
    /\ structAgg = Idle
    /\ errLog = Idle
    /\ interfaces = <<>>
    /\ interfacesMap = {}
    /\ structs = <<>>
    /\ structsMap = {}
    /\ errLines = <<>>
    /\ mainOut = <<>>
    /\ exitCode = -1
    /\ ifaceRecv = <<>>
    /\ structRecv = <<>>
    /\ errSent = [i \in Files |-> 0]
    /\ pkgs = <<>>
    /\ loadErr = FALSE
    /\ packageName = ""
    /\ packageDirectory = <<>>
    /\ iface = <<>>
    /\ strcts = <<>>
    /\ strctsImplementingIface = <<>>
    /\ checkIface = ""
    /\ checkStrct = ""
    /\ naiveRes = ""
    /\ typesRes = ""

\* The process runs until main returns, calls os.Exit or a goroutine panics.
Running == exitCode = -1

\* ---- main: the walk ----

\* The walk callback on entry walkIdx: an entry with an error makes the
\* callback return it, which ends the walk; directories and non-.go files are
\* skipped; a .go file gets writeWg.Add(1) and a goroutine of its own.
WalkVisit ==
    /\ Running /\ mainPc = "walk" /\ walkIdx <= Len(tree)
    /\ LET e == tree[walkIdx] IN
         CASE e.kind = "walkerr" ->
                /\ mainPc' = "walkFailed"
                /\ UNCHANGED <<walkIdx, writeWg, task>>
           [] e.kind = "skip" ->
                /\ walkIdx' = walkIdx + 1
                /\ UNCHANGED <<mainPc, writeWg, task>>
           [] OTHER ->
                /\ writeWg' = writeWg + 1
                /\ task' = [task EXCEPT ![walkIdx].pc = "parse"]
                /\ walkIdx' = walkIdx + 1
                /\ UNCHANGED mainPc
    /\ UNCHANGED <<prog, tree, interfaceName, ifacesClosed, structClosed,
                   ifaceAgg, structAgg, errLog, interfaces, interfacesMap,
                   structs, structsMap, errLines, mainOut, exitCode,
                   ifaceRecv, structRecv, errSent>>
    /\ UNCHANGED <<queryVars, checkVars>>

\* filepath.Walk returned nil: main goes on to the WaitGroup.
WalkReturn ==
    /\ Running /\ mainPc = "walk" /\ walkIdx > Len(tree)
    /\ mainPc' = "wait"
    /\ UNCHANGED <<prog, tree, interfaceName, walkIdx, writeWg, task,
                   ifacesClosed, structClosed, ifaceAgg, structAgg, errLog,
                   interfaces, interfacesMap, structs, structsMap, errLines,
                   mainOut, exitCode, ifaceRecv, structRecv, errSent>>
    /\ UNCHANGED <<queryVars, checkVars>>

\* filepath.Walk returned an error: print it and os.Exit(1).
WalkFailed ==
    /\ Running /\ mainPc = "walkFailed"
    /\ mainOut' = Append(mainOut, <<"walk error">>)
    /\ exitCode' = 1
    /\ mainPc' = "exited"
    /\ UNCHANGED <<prog, tree, interfaceName, walkIdx, writeWg, task,
                   ifacesClosed, structClosed, ifaceAgg, structAgg, errLog,
                   interfaces, interfacesMap, structs, structsMap, errLines,
                   ifaceRecv, structRecv, errSent>>
    /\ UNCHANGED <<queryVars, checkVars>>

\* ---- the extraction tasks: go func() { defer Done(); parseFile(...) } ----

ParseFails(e) == e.parse # "ok"

\* Whether parseFile sends declaration d.  The inspect program sends an
\* interface only when it has the requested name; both send every struct.
Emits(d) ==
    \/ d.kind = "struct"
    \/ d.kind = "interface" /\ (prog = "list" \/ d.name = interfaceName)

\* Where a task goes once its parseError has been received.  The inspect
\* program's parseFile has returned the error, so the goroutine ends; the
\* list program's parseFile sent it itself and falls through to ast.Inspect.
AfterParseError == IF prog = "inspect" THEN "finish" ELSE "inspect"

\* The value sent on ifacesCh / structCh for declaration k of file i.
Result(i, k) == [name |-> tree[i].decls[k].name, file |-> i, k |-> k]

otherScanVars == <<prog, tree, interfaceName, mainPc, walkIdx,
                   ifacesClosed, structClosed, interfaces, interfacesMap,
                   structs, structsMap, errLines, mainOut>>

\* parser.ParseFile(fset, path, nil, parser.AllErrors)
TaskParse(i) ==
    /\ Running /\ task[i].pc = "parse"
    /\ task' = [task EXCEPT ![i].pc =
                  IF ParseFails(tree[i]) THEN "sendErr" ELSE "inspect"]
    /\ UNCHANGED <<otherScanVars, writeWg, ifaceAgg, structAgg, errLog,
                   exitCode, ifaceRecv, structRecv, errSent>>
    /\ UNCHANGED <<queryVars, checkVars>>

\* parseErrors <- parseError{path, err}: the channel is unbuffered, so the
\* send completes when the log goroutine receives it.
TaskSendErr(i) ==
    /\ Running /\ task[i].pc = "sendErr" /\ errLog.pc = "recv"
    /\ errLog' = [pc |-> "print",
                  cur |-> [path |-> i, err |-> tree[i].parse]]
    /\ errSent' = [errSent EXCEPT ![i] = @ + 1]
    /\ task' = [task EXCEPT ![i].pc = AfterParseError]
    /\ UNCHANGED <<otherScanVars, writeWg, ifaceAgg, structAgg, exitCode,
                   ifaceRecv, structRecv>>
    /\ UNCHANGED <<queryVars, checkVars>>

\* ast.Inspect on the nil *ast.File of an unreadable file dereferences it:
\* the goroutine panics and the process dies with status 2.
TaskPanic(i) ==
    /\ Running /\ task[i].pc = "inspect" /\ tree[i].parse = "unreadable"
    /\ exitCode' = 2
    /\ UNCHANGED <<otherScanVars, writeWg, task, ifaceAgg, structAgg, errLog,
                   ifaceRecv, structRecv, errSent>>
    /\ UNCHANGED <<queryVars, checkVars>>

AtDecl(i) ==
    /\ task[i].pc = "inspect"
    /\ tree[i].parse # "unreadable"
    /\ task[i].k <= Len(tree[i].decls)

\* Whether building the value to send for d panics: the inspect program's
\* getFieldTypes asserts that every parameter and result type is an
\* *ast.Ident; the list program sends the AST node as it is.
ExtractPanics(d) == prog = "inspect" /\ d.kind = "interface" /\ ~d.idents

\* extractMethods panics on the failed type assertion: the process dies with
\* status 2.
TaskExtractPanic(i) ==
    /\ Running /\ AtDecl(i)
    /\ Emits(tree[i].decls[task[i].k])
    /\ ExtractPanics(tree[i].decls[task[i].k])
    /\ exitCode' = 2
    /\ UNCHANGED <<otherScanVars, writeWg, task, ifaceAgg, structAgg, errLog,
                   ifaceRecv, structRecv, errSent>>
    /\ UNCHANGED <<queryVars, checkVars>>

\* A type declaration the callback sends nothing for.
TaskSkip(i) ==
    /\ Running /\ AtDecl(i)
    /\ ~Emits(tree[i].decls[task[i].k])
    /\ task' = [task EXCEPT ![i].k = @ + 1]
    /\ UNCHANGED <<otherScanVars, writeWg, ifaceAgg, structAgg, errLog,
                   exitCode, ifaceRecv, structRecv, errSent>>
    /\ UNCHANGED <<queryVars, checkVars>>

\* interfaces <- interfaceResult{...}, received by the interface aggregator.
TaskSendIface(i) ==
    /\ Running /\ AtDecl(i)
    /\ LET d == tree[i].decls[task[i].k] IN
         /\ d.kind = "interface" /\ Emits(d) /\ ~ExtractPanics(d)
         /\ ifaceAgg.pc = "recv" /\ ~ifacesClosed
         /\ ifaceAgg' = [pc |-> "append", cur |-> Result(i, task[i].k)]
         /\ ifaceRecv' = Append(ifaceRecv, Result(i, task[i].k))
    /\ task' = [task EXCEPT ![i].k = @ + 1]
    /\ UNCHANGED <<otherScanVars, writeWg, structAgg, errLog, exitCode,
                   structRecv, errSent>>
    /\ UNCHANGED <<queryVars, checkVars>>

\* structs <- structResult{...}, received by the struct aggregator.
TaskSendStruct(i) ==
    /\ Running /\ AtDecl(i)
    /\ LET d == tree[i].decls[task[i].k] IN
         /\ d.kind = "struct" /\ Emits(d)
         /\ structAgg.pc = "recv" /\ ~structClosed
         /\ structAgg' = [pc |-> "append", cur |-> Result(i, task[i].k)]
         /\ structRecv' = Append(structRecv, Result(i, task[i].k))
    /\ task' = [task EXCEPT ![i].k = @ + 1]
    /\ UNCHANGED <<otherScanVars, writeWg, ifaceAgg, errLog, exitCode,
                   ifaceRecv, errSent>>
    /\ UNCHANGED <<queryVars, checkVars>>

\* parseFile returns and the deferred Done runs.
TaskDone(i) ==
    /\ Running
    /\ \/ task[i].pc = "finish"
       \/ /\ task[i].pc = "inspect" /\ tree[i].parse # "unreadable"
          /\ task[i].k > Len(tree[i].decls)
    /\ task' = [task EXCEPT ![i].pc = "done"]
    /\ writeWg' = writeWg - 1
    /\ UNCHANGED <<otherScanVars, ifaceAgg, structAgg, errLog, exitCode,
                   ifaceRecv, structRecv, errSent>>
    /\ UNCHANGED <<queryVars, checkVars>>

\* ---- the three reader goroutines ----

otherAggVars == <<prog, tree, interfaceName, walkIdx, writeWg, task,
                  ifacesClosed, structClosed, mainOut, exitCode, ifaceRecv,
                  structRecv, errSent>>

\* fmt.Printf("error parsing %s: %v\n", ...) for the parseError received.
LogPrint ==
    /\ Running /\ errLog.pc = "print"
    /\ errLines' = Append(errLines, errLog.cur)
    /\ errLog' = Idle
    /\ UNCHANGED <<otherAggVars, mainPc, ifaceAgg, structAgg, interfaces,
                   interfacesMap, structs, structsMap>>
    /\ UNCHANGED <<queryVars, checkVars>>

\* Whether the interface aggregator drops the interface it received: never
\* in the inspect program, a name already in interfacesMap in the list one.
IfaceSeen(name) == prog = "list" /\ name \in interfacesMap

\* The body of "for iface := range ifacesCh".
IfaceAppend ==
    /\ Running /\ ifaceAgg.pc = "append"
    /\ IF IfaceSeen(ifaceAgg.cur.name)
         THEN UNCHANGED <<interfaces, interfacesMap>>
         ELSE /\ interfaces' = Append(interfaces, ifaceAgg.cur)
              /\ interfacesMap' = IF prog = "list"
                                    THEN interfacesMap \cup {ifaceAgg.cur.name}
                                    ELSE interfacesMap
    /\ ifaceAgg' = Idle
    /\ UNCHANGED <<otherAggVars, mainPc, structAgg, errLog, structs,
                   structsMap, errLines>>
    /\ UNCHANGED <<queryVars, checkVars>>

\* The range over the closed ifacesCh ends (inspect program only: the list
\* program never closes its channels).
IfaceRangeEnds ==
    /\ Running /\ ifaceAgg.pc = "recv" /\ ifacesClosed
    /\ ifaceAgg' = [ifaceAgg EXCEPT !.pc = "signal"]
    /\ UNCHANGED <<otherAggVars, mainPc, structAgg, errLog, interfaces,
                   interfacesMap, structs, structsMap, errLines>>
    /\ UNCHANGED <<queryVars, checkVars>>

\* A struct aggregator that never looks its map up.
StructSeenNever(name) == FALSE

\* Whether the struct aggregator drops the struct it received.
StructSeen(name) == name \in structsMap

\* The body of "for strct := range structCh".
StructAppend ==
    /\ Running /\ structAgg.pc = "append"
    /\ IF StructSeen(structAgg.cur.name)
         THEN UNCHANGED <<structs, structsMap>>
         ELSE /\ structs' = Append(structs, structAgg.cur)
              /\ structsMap' = structsMap \cup {structAgg.cur.name}
    /\ structAgg' = Idle
    /\ UNCHANGED <<otherAggVars, mainPc, ifaceAgg, errLog, interfaces,
                   interfacesMap, errLines>>
    /\ UNCHANGED <<queryVars, checkVars>>

\* The range over the closed structCh ends and the goroutine returns.
StructRangeEnds ==
    /\ Running /\ structAgg.pc = "recv" /\ structClosed
    /\ structAgg' = [structAgg EXCEPT !.pc = "done"]
    /\ UNCHANGED <<otherAggVars, mainPc, ifaceAgg, errLog, interfaces,
                   interfacesMap, structs, structsMap, errLines>>
    /\ UNCHANGED <<queryVars, checkVars>>

\* ---- main: after the walk ----

otherMainVars == <<prog, tree, interfaceName, walkIdx, writeWg, task,
                   structAgg, errLog, interfaces, interfacesMap, structs,
                   structsMap, errLines, ifaceRecv, structRecv, errSent>>

\* What main does once Wait has returned: the inspect program closes the two
\* declaration channels, the list program goes straight to printing.
AfterWait == IF prog = "inspect" THEN "closeIfaces" ELSE "printIfaces"

\* writeWg.Wait() / wg.Wait()
MainWait ==
    /\ Running /\ mainPc = "wait" /\ writeWg = 0
    /\ mainPc' = AfterWait
    /\ UNCHANGED <<otherMainVars, ifacesClosed, structClosed, ifaceAgg,
                   mainOut, exitCode>>
    /\ UNCHANGED <<queryVars, checkVars>>

\* close(ifacesCh)
MainCloseIfaces ==
    /\ Running /\ mainPc = "closeIfaces"
    /\ ifacesClosed' = TRUE
    /\ mainPc' = "closeStructs"
    /\ UNCHANGED <<otherMainVars, structClosed, ifaceAgg, mainOut, exitCode>>
    /\ UNCHANGED <<queryVars, checkVars>>

\* close(structCh)
MainCloseStructs ==
    /\ Running /\ mainPc = "closeStructs"
    /\ structClosed' = TRUE
    /\ mainPc' = "waitIfaces"
    /\ UNCHANGED <<otherMainVars, ifacesClosed, ifaceAgg, mainOut, exitCode>>
    /\ UNCHANGED <<queryVars, checkVars>>

\* readIfacesCh <- struct{}{} in the interface aggregator meets
\* <-readIfacesCh in main.
ReadIfacesDone ==
    /\ Running /\ mainPc = "waitIfaces" /\ ifaceAgg.pc = "signal"
    /\ ifaceAgg' = [ifaceAgg EXCEPT !.pc = "done"]
    /\ mainPc' = "checkEmpty"
    /\ UNCHANGED <<otherMainVars, ifacesClosed, structClosed, mainOut,
                   exitCode>>
    /\ UNCHANGED <<queryVars, checkVars>>

\* if len(interfaces) == 0 { "No interface found ..."; os.Exit(1) }
MainCheckEmpty ==
    /\ Running /\ mainPc = "checkEmpty"
    /\ IF Len(interfaces) = 0
         THEN /\ mainOut' = Append(mainOut, <<"No interface found">>)
              /\ exitCode' = 1
              /\ mainPc' = "exited"
         ELSE /\ mainPc' = "printIfaces"
              /\ UNCHANGED <<mainOut, exitCode>>
    /\ UNCHANGED <<otherMainVars, ifacesClosed, structClosed, ifaceAgg>>
    /\ UNCHANGED <<queryVars, checkVars>>

\* The lines a range over list prints: the range reads the slice once.
Lines(tag, list) == [j \in 1..Len(list) |-> <<tag, list[j].name>>]

\* fmt.Printf("Interfaces"); for _, iface := range interfaces { Println }
MainPrintIfaces ==
    /\ Running /\ mainPc = "printIfaces"
    /\ mainOut' = mainOut \o <<<<"Interfaces">>>> \o Lines("interface", interfaces)
    /\ mainPc' = "printStructs"
    /\ UNCHANGED <<otherMainVars, ifacesClosed, structClosed, ifaceAgg,
                   exitCode>>
    /\ UNCHANGED <<queryVars, checkVars>>

\* fmt.Printf("Structs"); for _, strct := range structs { Println }; return
MainPrintStructs ==
    /\ Running /\ mainPc = "printStructs"
    /\ mainOut' = mainOut \o <<<<"Structs">>>> \o Lines("struct", structs)
    /\ mainPc' = "returned"
    /\ exitCode' = 0
    /\ UNCHANGED <<otherMainVars, ifacesClosed, structClosed, ifaceAgg>>
    /\ UNCHANGED <<queryVars, checkVars>>

NextScan ==
    \/ WalkVisit
    \/ WalkReturn
    \/ WalkFailed
    \/ \E i \in Files : TaskParse(i)
    \/ \E i \in Files : TaskSendErr(i)
    \/ \E i \in Files : TaskPanic(i)
    \/ \E i \in Files : TaskSkip(i)
    \/ \E i \in Files : TaskExtractPanic(i)
    \/ \E i \in Files : TaskSendIface(i)
    \/ \E i \in Files : TaskSendStruct(i)
    \/ \E i \in Files : TaskDone(i)
    \/ LogPrint
    \/ IfaceAppend
    \/ IfaceRangeEnds
    \/ StructAppend
    \/ StructRangeEnds
    \/ MainWait
    \/ MainCloseIfaces
    \/ MainCloseStructs
    \/ ReadIfacesDone
    \/ MainCheckEmpty
    \/ MainPrintIfaces
    \/ MainPrintStructs

Spec == InitScan /\ [][NextScan]_vars

----------------------------------------------------------------------------
(* The query program (src/main.go): its inputs.                            *)

MaxPkgs == 2
MaxObjs == 3

\* Strings that strings.Contains looks into are sequences of characters.
Contains(str, substr) ==
    \E i \in 0..(Len(str) - Len(substr)) :
        SubSeq(str, i + 1, i + Len(substr)) = substr

\* Method signatures; types.Identical compares parameter and result types.
SigStringError == [params |-> <<"string">>, results |-> <<"error">>]
SigStringString == [params |-> <<"string">>, results |-> <<"string">>]

Method(n, sig) == [name |-> n, sig |-> sig]
Bound(n, sig, recv) == [name |-> n, sig |-> sig, recv |-> recv]

\* The objects a package scope can hold under a name, each with the type
\* obj.Type() gives: a defined interface type; a defined struct type with the
\* methods declared on it; a package-level variable whose type is a struct
\* type (declared in this or in an imported package); a function.
\* A struct type also carries its fields, as a field list in declaration
\* order (see Field below); the types of Objects declare none.
InterfaceType(ms) ==
    [kind |-> "type", underlying |-> "interface", methods |-> ms,
     fields |-> <<>>]
StructTypeOf(ms, fs) ==
    [kind |-> "type", underlying |-> "struct", methods |-> ms, fields |-> fs]
StructType(ms) == StructTypeOf(ms, <<>>)
StructVar(ms) ==
    [kind |-> "var", underlying |-> "struct", methods |-> ms, fields |-> <<>>]
Func ==
    [kind |-> "func", underlying |-> "signature", methods |-> {},
     fields |-> <<>>]

Objects ==
    { InterfaceType({Method("M", SigStringError), Method("N", SigStringError)}),
      StructType({}),
      StructType({Bound("M", SigStringError, "value"),
                  Bound("N", SigStringError, "value")}),
      StructType({Bound("M", SigStringError, "pointer"),
                  Bound("N", SigStringError, "pointer")}),
      StructType({Bound("M", SigStringError, "value"),
                  Bound("N", SigStringError, "pointer")}),
      StructType({Bound("M", SigStringError, "pointer"),
                  Bound("N", SigStringString, "pointer")}),
      StructVar({Bound("M", SigStringError, "pointer"),
                 Bound("N", SigStringError, "pointer")}),
      Func }

\* Object names, in the sorted order scope.Names() returns them.
ObjNames == <<"A", "I">>

NameSet == {ObjNames[j] : j \in 1..Len(ObjNames)}

Scopes == UNION { [ns -> Objects] : ns \in SUBSET NameSet }

\* Package name and package path of the loaded packages.
PkgHeads ==
    { [name |-> "p", path |-> <<"m", "/", "x">>],
      [name |-> "p", path |-> <<"m", "/", "y">>],
      [name |-> "q", path |-> <<"m", "/", "x">>] }

Package(h, sc) == [name |-> h.name, path |-> h.path, scope |-> sc]

Packages == { Package(h, sc) : h \in PkgHeads, sc \in Scopes }

NObjs(ps) ==
    LET Count[j \in 0..Len(ps)] ==
          IF j = 0 THEN 0 ELSE Count[j - 1] + Cardinality(DOMAIN ps[j].scope)
    IN  Count[Len(ps)]

Loads ==
    { ps \in UNION { [1..n -> Packages] : n \in 0..MaxPkgs } :
        NObjs(ps) <= MaxObjs }

PackageDirectories == { <<".">>, <<".", "/">>, <<"x">> }

InitQuery ==
    /\ prog = "query"
    /\ \/ /\ packageName = "p" /\ interfaceName = "I"
          /\ packageDirectory \in PackageDirectories
          /\ \/ pkgs \in Loads /\ loadErr = FALSE
             \/ pkgs = <<>> /\ loadErr = TRUE
       \/ /\ \/ packageName = "" /\ interfaceName = "I"
             \/ packageName = "p" /\ interfaceName = ""
          /\ packageDirectory = <<".">>
          /\ pkgs = <<>> /\ loadErr = FALSE
    /\ mainPc = "args"
    /\ mainOut = <<>>
    /\ exitCode = -1
    /\ iface = <<>>
    /\ strcts = <<>>
    /\ strctsImplementingIface = <<>>
    /\ checkIface = ""
    /\ checkStrct = ""
    /\ naiveRes = ""
    /\ typesRes = ""
    /\ tree = <<>>
    /\ walkIdx = 1
    /\ writeWg = 0
    /\ task = <<>>
    /\ ifacesClosed = FALSE
    /\ structClosed = FALSE
    /\ ifaceAgg = Idle
    /\ structAgg = Idle
    /\ errLog = Idle
    /\ interfaces = <<>>
    /\ interfacesMap = {}
    /\ structs = <<>>
    /\ structsMap = {}
    /\ errLines = <<>>
    /\ ifaceRecv = <<>>
    /\ structRecv = <<>>
    /\ errSent = <<>>

----------------------------------------------------------------------------
(* The query program: its functions.                                       *)

IsRootDir(dir) == dir = <<".">> \/ dir = <<".", "/">>

\* The test of findInterface's loop on one package.
PkgMatches(pkg, name, dir) ==
    pkg.name = name /\ (Contains(pkg.path, dir) \/ IsRootDir(dir))

\* A loop without the break: the last package that passes the test wins.
FindPackageLast(ps, name, dir, i) ==
    LET ms == { j \in i..Len(ps) : PkgMatches(ps[j], name, dir) }
    IN  IF ms = {} THEN 0 ELSE CHOOSE j \in ms : \A k \in ms : k <= j

\* findInterface's loop: the index of the package it breaks on, from package
\* i on; 0 when the loop ends with pkgFound false.
RECURSIVE FindPackage(_, _, _, _)
FindPackage(ps, name, dir, i) ==
    IF i > Len(ps) THEN 0
    ELSE IF PkgMatches(ps[i], name, dir) THEN i
    ELSE FindPackage(ps, name, dir, i + 1)

NoPackage == "couldn't find a package"
NoInterface == "no such interface"

Failed(e) == [err |-> e, pkg |-> 0, iface |-> {}, ifaceName |-> ""]

\* A findInterface that takes whatever object has the name for an interface.
findInterfaceAnyObject(ps, name, dir, ifaceName) ==
    LET at == FindPackage(ps, name, dir, 1) IN
    IF at = 0 THEN Failed(NoPackage)
    ELSE LET scope == ps[at].scope IN
         IF ifaceName \notin DOMAIN scope THEN Failed(NoInterface)
         ELSE [err |-> "nil", pkg |-> at,
               iface |-> { Method(m.name, m.sig) : m \in scope[ifaceName].methods },
               ifaceName |-> ifaceName]

findInterface(ps, name, dir, ifaceName) ==
    LET at == FindPackage(ps, name, dir, 1) IN
    IF at = 0 THEN Failed(NoPackage)
    ELSE LET scope == ps[at].scope IN
         IF ifaceName \notin DOMAIN scope THEN Failed(NoInterface)
         ELSE IF scope[ifaceName].underlying # "interface"
              THEN Failed(NoInterface)
         ELSE [err |-> "nil", pkg |-> at, iface |-> scope[ifaceName].methods,
               ifaceName |-> ifaceName]

\* scope.Names(): the names of the scope, sorted.
Names(scope) == SelectSeq(ObjNames, LAMBDA n : n \in DOMAIN scope)

\* pkg.Fset.Position(obj.Pos()): where object n of package p is declared.
Position(p, n) == [pkg |-> p, name |-> n]

\* The test findStrcts puts an object of a scope to.
IsStrct(obj) == obj.underlying = "struct"

\* findStrcts' inner loop on package p.
StrctsOf(ps, p) ==
    LET ns == SelectSeq(Names(ps[p].scope),
                        LAMBDA n : IsStrct(ps[p].scope[n]))
    IN  [j \in 1..Len(ns) |->
           [obj |-> ps[p].scope[ns[j]], name |-> ns[j],
            position |-> Position(p, ns[j])]]

RECURSIVE StrctsFrom(_, _)
StrctsFrom(ps, p) ==
    IF p > Len(ps) THEN <<>> ELSE StrctsOf(ps, p) \o StrctsFrom(ps, p + 1)

findStrcts(ps) == StrctsFrom(ps, 1)

\* The struct type itself handed to types.Implements, not a pointer to it.
NewValue(obj) == [elem |-> obj, pointer |-> FALSE]

\* types.NewPointer(strct.obj.Type())
NewPointer(obj) == [elem |-> obj, pointer |-> TRUE]

\* ---- type declarations with fields (struct embedding) ----

NoSig == [params |-> <<>>, results |-> <<>>]

\* ast.Expr nodes that stand for a type: an identifier T, a pointer *T, a
\* function type.  pos is the position of the node in its file: two nodes
\* are the same node exactly when they are at the same position.
Ident(n, pos) == [kind |-> "Ident", name |-> n, sig |-> NoSig, pos |-> pos]
StarExpr(n, pos) ==
    [kind |-> "StarExpr", name |-> n, sig |-> NoSig, pos |-> pos]
FuncType(sig, pos) ==
    [kind |-> "FuncType", name |-> "", sig |-> sig, pos |-> pos]

\* ast.Field: a field of a struct type or a method of an interface type.
\* names is <<>> (Names == nil) for an embedded field and for an embedded
\* interface.
Field(names, type) == [names |-> names, type |-> type]

\* The struct types the checked source declares, each with the methods
\* declared on it and its field list:
\*   E  struct{}                     no method
\*   R  struct{}                     func (R) M(string) error
\*   P  struct{}                     func (*P) M(string) error
\*   S  struct{ R }                  func (S) M(string) string
\*   T  struct{ R }                  no method
\*   F  struct{ R; M int }           no method
\*   A  struct{ R; P }               no method
\*   W  struct{ *W }                 no method
\*   X  struct{ *Y }                 no method
\*   Y  struct{ *X }                 func (*Y) M(string) error
\*   G  struct{ M func(string) error }  no method
TypeSpecs ==
    [ E |-> StructTypeOf({}, <<>>),
      R |-> StructTypeOf({Bound("M", SigStringError, "value")}, <<>>),
      P |-> StructTypeOf({Bound("M", SigStringError, "pointer")}, <<>>),
      S |-> StructTypeOf({Bound("M", SigStringString, "value")},
                         <<Field(<<>>, Ident("R", 40))>>),
      T |-> StructTypeOf({}, <<Field(<<>>, Ident("R", 50))>>),
      F |-> StructTypeOf({}, <<Field(<<>>, Ident("R", 60)),
                               Field(<<"M">>, Ident("int", 61))>>),
      A |-> StructTypeOf({}, <<Field(<<>>, Ident("R", 70)),
                               Field(<<>>, Ident("P", 71))>>),
      W |-> StructTypeOf({}, <<Field(<<>>, StarExpr("W", 80))>>),
      X |-> StructTypeOf({}, <<Field(<<>>, StarExpr("Y", 90))>>),
      Y |-> StructTypeOf({Bound("M", SigStringError, "pointer")},
                         <<Field(<<>>, StarExpr("X", 100))>>),
      G |-> StructTypeOf({}, <<Field(<<"M">>,
                                     FuncType(SigStringError, 110))>>) ]

\* The interface types it declares, each as its method list:
\*   Any  interface{}
\*   I    interface{ M(string) error }
\*   J    interface{ M(string) string }
\*   K    interface{ Any }
InterfaceSpecs ==
    [ Any |-> <<>>,
      I |-> <<Field(<<"M">>, FuncType(SigStringError, 10))>>,
      J |-> <<Field(<<"M">>, FuncType(SigStringString, 20))>>,
      K |-> <<Field(<<>>, Ident("Any", 30))>> ]

\* The methods of a *types.Interface: the explicitly declared ones and
\* those of its embedded interfaces.
RECURSIVE AllMethods(_)
AllMethods(list) ==
    UNION { IF list[j].names = <<>>
              THEN AllMethods(InterfaceSpecs[list[j].type.name])
              ELSE {Method(list[j].names[1], list[j].type.sig)} :
            j \in DOMAIN list }

\* The name a field is selected by: its own, or the type name if embedded.
FieldName(f) == IF f.names = <<>> THEN f.type.name ELSE f.names[1]

\* An embedded field promotes nothing.
EmbeddedNone(obj) == <<>>

\* The embedded fields of a struct type whose type is a declared struct
\* type T or a pointer *T to one, with the type they lead to.
Embedded(obj) ==
    LET es == SelectSeq(obj.fields,
                        LAMBDA f : /\ f.names = <<>>
                                   /\ f.type.name \in DOMAIN TypeSpecs)
    IN  [j \in DOMAIN es |->
           [type |-> TypeSpecs[es[j].type.name],
            indirect |-> es[j].type.kind = "StarExpr"]]

NotFound == [found |-> FALSE, method |-> Bound("", NoSig, ""),
             indirect |-> FALSE]

\* The selector lookup of go/types behind types.Implements: breadth first
\* over the embedding depth.  current holds the types at this depth, one
\* entry for every path that leads to them; seen holds the types of the
\* shallower depths, which are not entered again.  A name that one entry of
\* this depth has once, as a method, is found; a name that is a field, or
\* that this depth has more than once, is not a method of the type; a name
\* this depth does not have is looked up one level deeper.
RECURSIVE lookupFieldOrMethod(_, _, _)
lookupFieldOrMethod(name, current, seen) ==
    LET fresh == SelectSeq(current, LAMBDA e : e.type \notin seen)
        MethodsNamed(e) == { b \in e.type.methods : b.name = name }
        FieldsNamed(e) ==
            { j \in DOMAIN e.type.fields : FieldName(e.type.fields[j]) = name }
        Hits[j \in 0..Len(fresh)] ==
            IF j = 0 THEN 0
            ELSE Hits[j - 1] + Cardinality(MethodsNamed(fresh[j]))
                             + Cardinality(FieldsNamed(fresh[j]))
        methodHits ==
            UNION { { [found |-> TRUE, method |-> b,
                       indirect |-> fresh[j].indirect] :
                      b \in MethodsNamed(fresh[j]) } : j \in DOMAIN fresh }
        Children(e) ==
            LET es == Embedded(e.type)
            IN  [j \in DOMAIN es |->
                   [type |-> es[j].type,
                    indirect |-> e.indirect \/ es[j].indirect]]
        Next[j \in 0..Len(fresh)] ==
            IF j = 0 THEN <<>> ELSE Next[j - 1] \o Children(fresh[j])
    IN  IF fresh = <<>> THEN NotFound
        ELSE IF Hits[Len(fresh)] = 0
          THEN lookupFieldOrMethod(name, Next[Len(fresh)],
                   seen \cup { fresh[j].type : j \in DOMAIN fresh })
        ELSE IF Hits[Len(fresh)] = 1 /\ methodHits # {}
          THEN CHOOSE h \in methodHits : TRUE
        ELSE NotFound

\* The method names declared anywhere.
MethodNames(obj) ==
    { b.name : b \in obj.methods \cup
                     UNION { TypeSpecs[n].methods : n \in DOMAIN TypeSpecs } }

\* The method set of a type: the methods the lookup finds, declared on the
\* type or promoted from its embedded fields; one with a pointer receiver
\* counts only if the type is a pointer or the path to the method goes
\* through one.
MethodSet(t) ==
    LET root == <<[type |-> t.elem, indirect |-> t.pointer]>>
        Looked(n) == lookupFieldOrMethod(n, root, {})
    IN  { Method(Looked(n).method.name, Looked(n).method.sig) :
            n \in { k \in MethodNames(t.elem) :
                      /\ Looked(k).found
                      /\ \/ Looked(k).indirect
                         \/ Looked(k).method.recv = "value" } }

\* types.Implements(V, T): V's method set has every method of T, with an
\* identical signature.
Implements(V, T) == \A m \in T : m \in MethodSet(V)

getStrctsImplementingIface(ss, found) ==
    SelectSeq(ss, LAMBDA st : Implements(NewPointer(st.obj), found.iface))

\* ---- main ----

otherQueryVars == <<prog, interfaceName, pkgs, loadErr, packageName,
                    packageDirectory, tree, walkIdx, writeWg, task,
                    ifacesClosed, structClosed, ifaceAgg, structAgg, errLog,
                    interfaces, interfacesMap, structs, structsMap, errLines,
                    ifaceRecv, structRecv, errSent, checkVars>>

\* if *interfaceName == "" || *packageName == "" { flag.Usage(); os.Exit(1) }
QueryArgs ==
    /\ Running /\ prog = "query" /\ mainPc = "args"
    /\ IF interfaceName = "" \/ packageName = ""
         THEN /\ mainOut' = Append(mainOut, <<"usage">>)
              /\ exitCode' = 1
              /\ mainPc' = "exited"
         ELSE /\ mainPc' = "load"
              /\ UNCHANGED <<mainOut, exitCode>>
    /\ UNCHANGED <<otherQueryVars, iface, strcts, strctsImplementingIface>>

\* packages.Load(...)
QueryLoad ==
    /\ Running /\ mainPc = "load"
    /\ IF loadErr
         THEN /\ mainOut' = Append(mainOut, <<"error: load packages">>)
              /\ exitCode' = 1
              /\ mainPc' = "exited"
         ELSE /\ mainPc' = "findInterface"
              /\ UNCHANGED <<mainOut, exitCode>>
    /\ UNCHANGED <<otherQueryVars, iface, strcts, strctsImplementingIface>>

\* iface, err := findInterface(...); on an error print it and os.Exit(1)
QueryFindInterface ==
    /\ Running /\ mainPc = "findInterface"
    /\ iface' = findInterface(pkgs, packageName, packageDirectory,
                              interfaceName)
    /\ IF iface'.err # "nil"
         THEN /\ mainOut' = Append(mainOut,
                                   <<"error: find interfaces", iface'.err>>)
              /\ exitCode' = 1
              /\ mainPc' = "exited"
         ELSE /\ mainPc' = "findStrcts"
              /\ UNCHANGED <<mainOut, exitCode>>
    /\ UNCHANGED <<otherQueryVars, strcts, strctsImplementingIface>>

\* strcts := findStrcts(pkgs)
QueryFindStrcts ==
    /\ Running /\ mainPc = "findStrcts"
    /\ strcts' = findStrcts(pkgs)
    /\ mainPc' = "implementing"
    /\ UNCHANGED <<otherQueryVars, iface, strctsImplementingIface, mainOut,
                   exitCode>>

\* strctsImplementingIface := getStrctsImplementingIface(...)
QueryImplementing ==
    /\ Running /\ mainPc = "implementing"
    /\ strctsImplementingIface' = getStrctsImplementingIface(strcts, iface)
    /\ mainPc' = "report"
    /\ UNCHANGED <<otherQueryVars, iface, strcts, mainOut, exitCode>>

\* (*strctFound).String(): "<name> <file>:<line>:<column>"
String(st) == <<"result", st.name, st.position>>

\* The no-implementations error and os.Exit(1), or one line per struct.
QueryReport ==
    /\ Running /\ mainPc = "report"
    /\ IF Len(strctsImplementingIface) = 0
         THEN /\ mainOut' = Append(mainOut, <<"error: no structs implement">>)
              /\ exitCode' = 1
              /\ mainPc' = "exited"
         ELSE /\ mainOut' = mainOut \o
                   [j \in 1..Len(strctsImplementingIface) |->
                      String(strctsImplementingIface[j])]
              /\ exitCode' = 0
              /\ mainPc' = "returned"
    /\ UNCHANGED <<otherQueryVars, iface, strcts, strctsImplementingIface>>

NextQuery ==
    \/ QueryArgs
    \/ QueryLoad
    \/ QueryFindInterface
    \/ QueryFindStrcts
    \/ QueryImplementing
    \/ QueryReport

SpecQuery == InitQuery /\ [][NextQuery]_vars

----------------------------------------------------------------------------
(* The two satisfaction checks, applied to one interface and one struct    *)
(* type of the declarations above.                                          *)

\* implements (part_001): the inner loop of its second part, from field j
\* on.  strctField.Names[0] and method.Names[0] are index expressions on
\* slices that are nil for an embedded field and an embedded interface, and
\* strctField.Type == method.Type compares two ast.Expr interface values,
\* that is, the nodes they point to.
RECURSIVE FindField(_, _, _)
FindField(method, fields, j) ==
    IF j > Len(fields) THEN "missing"
    ELSE IF fields[j].names = <<>> \/ method.names = <<>> THEN "panic"
    ELSE IF /\ fields[j].names[1] = method.names[1]
            /\ fields[j].type = method.type
      THEN "found"
    ELSE FindField(method, fields, j + 1)

\* Its second part, from method k on: the outcome of implements.
RECURSIVE MethodsFrom(_, _, _)
MethodsFrom(methods, fields, k) ==
    IF k > Len(methods) THEN "true"
    ELSE LET r == FindField(methods[k], fields, 1)
         IN  IF r = "found" THEN MethodsFrom(methods, fields, k + 1)
             ELSE IF r = "missing" THEN "false"
             ELSE "panic"

\* implements(iface, strct): "true", "false", or "panic" for a run-time
\* panic.  Its first part, AnonymousFrom, follows an anonymous field only
\* if the field's type is a struct type written in place.
RECURSIVE implements(_, _)
RECURSIVE AnonymousFrom(_, _, _)
AnonymousFrom(methods, fields, j) ==
    IF j > Len(fields) THEN "continue"
    ELSE IF fields[j].names = <<>> /\ fields[j].type.kind = "StructType"
      THEN LET r == implements(methods, fields[j].type.fields)
           IN  IF r = "false" THEN AnonymousFrom(methods, fields, j + 1)
               ELSE r
    ELSE AnonymousFrom(methods, fields, j + 1)

implements(methods, fields) ==
    LET r == AnonymousFrom(methods, fields, 1)
    IN  IF r = "continue" THEN MethodsFrom(methods, fields, 1) ELSE r

InitCheck ==
    /\ prog = "check"
    /\ checkIface \in DOMAIN InterfaceSpecs
    /\ checkStrct \in DOMAIN TypeSpecs
    /\ naiveRes = ""
    /\ typesRes = ""
    /\ interfaceName = ""
    /\ mainPc = "check"
    /\ mainOut = <<>>
    /\ exitCode = -1
    /\ pkgs = <<>>
    /\ loadErr = FALSE
    /\ packageName = ""
    /\ packageDirectory = <<>>
    /\ iface = <<>>
    /\ strcts = <<>>
    /\ strctsImplementingIface = <<>>
    /\ tree = <<>>
    /\ walkIdx = 1
    /\ writeWg = 0
    /\ task = <<>>
    /\ ifacesClosed = FALSE
    /\ structClosed = FALSE
    /\ ifaceAgg = Idle
    /\ structAgg = Idle
    /\ errLog = Idle
    /\ interfaces = <<>>
    /\ interfacesMap = {}
    /\ structs = <<>>
    /\ structsMap = {}
    /\ errLines = <<>>
    /\ ifaceRecv = <<>>
    /\ structRecv = <<>>
    /\ errSent = <<>>

\* implements(iface, strct) of the list program
CheckImplements ==
    /\ prog = "check" /\ naiveRes = ""
    /\ naiveRes' = implements(InterfaceSpecs[checkIface],
                              TypeSpecs[checkStrct].fields)
    /\ UNCHANGED <<scanVars, queryVars, checkIface, checkStrct, typesRes>>

\* The body of getStrctsImplementingIface's loop for one struct: whether
\* the struct ends up in the result.
CheckTypes ==
    /\ prog = "check" /\ typesRes = ""
    /\ typesRes' =
         IF getStrctsImplementingIface(
              <<[obj |-> TypeSpecs[checkStrct], name |-> checkStrct,
                 position |-> Position(1, checkStrct)]>>,
              [iface |-> AllMethods(InterfaceSpecs[checkIface])]) # <<>>
           THEN "true" ELSE "false"
    /\ UNCHANGED <<scanVars, queryVars, checkIface, checkStrct, naiveRes>>

NextCheck ==
    \/ CheckImplements
    \/ CheckTypes

SpecCheck == InitCheck /\ [][NextCheck]_vars

----------------------------------------------------------------------------
(* Claims about the scanners (checked under Spec).                         *)

Scanner == prog \in {"inspect", "list"}

\* Every extraction task that was started has called Done.
TasksFinished == \A i \in Files : task[i].pc \in {"none", "done"}

\* The .go files whose parse fails.
FailedFiles == { i \in Files : tree[i].kind = "go" /\ ParseFails(tree[i]) }

\* C1: main reads the aggregated interface list (to test it for emptiness
\* and to print it) and the aggregated struct list (to print it) only when
\* every parseFile task has finished and the aggregator of that list holds no
\* declaration it has received and not yet appended.
C1_ReadsOnlyAfterBarrier ==
    Scanner =>
      /\ mainPc \in {"checkEmpty", "printIfaces"} =>
           TasksFinished /\ ifaceAgg.pc # "append"
      /\ mainPc = "printStructs" =>
           TasksFinished /\ structAgg.pc # "append"

\* The declarations the struct aggregator has received and dealt with.
StructsProcessed ==
    IF structAgg.pc = "append"
      THEN SubSeq(structRecv, 1, Len(structRecv) - 1)
      ELSE structRecv

\* The first element of seq that has the name.
FirstNamed(seq, name) ==
    seq[CHOOSE j \in 1..Len(seq) :
          /\ seq[j].name = name
          /\ \A h \in 1..(j - 1) : seq[h].name # name]

NamesIn(seq) == { seq[j].name : j \in 1..Len(seq) }

\* C2: the struct list holds at most one entry per name, the names in it are
\* those the aggregator has received and dealt with, and the entry of a name
\* is the first declaration of that name the aggregator received.
C2_StructsFirstSeenWins ==
    Scanner =>
      /\ \A j, h \in 1..Len(structs) :
           structs[j].name = structs[h].name => j = h
      /\ NamesIn(structs) = NamesIn(StructsProcessed)
      /\ \A j \in 1..Len(structs) :
           structs[j] = FirstNamed(structRecv, structs[j].name)

\* C2's case: the aggregator has dealt with two declarations of one name
\* that came from two files, and kept one entry.
C2_Witness ==
    /\ Scanner /\ structAgg.pc = "recv"
    /\ \E j, h \in 1..Len(structRecv) :
         /\ j < h
         /\ structRecv[j].name = structRecv[h].name
         /\ structRecv[j].file # structRecv[h].file
    /\ Len(structs) = 1

\* Two files, in walk order, that both declare struct S.
TwoFilesDeclareS ==
    /\ prog = "inspect"
    /\ tree = <<GoFile("ok", <<StructDecl("S")>>),
                GoFile("ok", <<StructDecl("S")>>)>>

\* C3: with two files that declare struct S, the S kept in the struct list
\* comes from the same file in every interleaving; stated for the file the
\* walk meets first.  The run C3_FirstFileKept reaches and the run that
\* violates this formula are two interleavings of the same input that keep
\* the S of different files.
C3_SameFileInEveryInterleaving ==
    (TwoFilesDeclareS /\ Len(structs) > 0) => structs[1].file = 1

\* C3, the other outcome: a run of the same input in which the S of the
\* first file is the one kept.
C3_FirstFileKept ==
    TwoFilesDeclareS /\ Len(structs) > 0 /\ structs[1].file = 1

\* C4: the task of a file whose parse fails sends no declaration on either
\* channel and sends exactly one parseError, with that file's path and
\* cause.
C4_FailedFileSendsOnlyItsError ==
    Scanner =>
      \A i \in FailedFiles :
        /\ \A j \in 1..Len(ifaceRecv) : ifaceRecv[j].file # i
        /\ \A j \in 1..Len(structRecv) : structRecv[j].file # i
        /\ errSent[i] <= 1
        /\ task[i].pc \in {"inspect", "finish", "done"} => errSent[i] = 1
        /\ \A j \in 1..Len(errLines) :
             errLines[j].path = i => errLines[j].err = tree[i].parse

\* C5: when main ends after a completed walk, one "error parsing" line has
\* been printed for every file whose parse failed.
C5_EveryParseErrorPrinted ==
    (Scanner /\ exitCode \in {0, 1} /\ walkIdx > Len(tree)) =>
      /\ Len(errLines) = Cardinality(FailedFiles)
      /\ \A i \in FailedFiles :
           \E j \in 1..Len(errLines) : errLines[j].path = i

----------------------------------------------------------------------------
(* Claims about the query program (checked under SpecQuery).               *)

\* The loaded packages the request names: the package name is the requested
\* one and the path contains the requested directory ("." and "./" stand for
\* any path).
RequestedPkgs ==
    { p \in 1..Len(pkgs) :
        /\ pkgs[p].name = packageName
        /\ \/ packageDirectory \in {<<".">>, <<".", "/">>}
           \/ Contains(pkgs[p].path, packageDirectory) }

\* No interface of the requested name exists in the requested package scope.
NoSuchInterface ==
    \/ RequestedPkgs = {}
    \/ LET p == CHOOSE x \in RequestedPkgs : \A y \in RequestedPkgs : x <= y
       IN  \/ interfaceName \notin DOMAIN pkgs[p].scope
           \/ pkgs[p].scope[interfaceName].underlying # "interface"

\* The result lines main has printed ("<name> <file>:<line>:<column>").
ResultLines == { j \in 1..Len(mainOut) : mainOut[j][1] = "result" }

InterfaceFound == iface # <<>> /\ iface.err = "nil"

\* C6: when no interface of the requested name exists in the requested
\* scope, findInterface returns an error, main exits with status 1, and no
\* result line is ever printed.
C6_LookupErrorExits ==
    (prog = "query" /\ NoSuchInterface) =>
      /\ ResultLines = {}
      /\ exitCode \in {-1, 1}
      /\ iface # <<>> => (iface.err # "nil" /\ exitCode = 1)

\* C6's case: the requested package is loaded, the name is in its scope but
\* is no interface, structs are loaded, and findInterface has run.
C6_Witness ==
    /\ prog = "query" /\ iface # <<>> /\ iface.err = NoInterface
    /\ \E p \in RequestedPkgs : interfaceName \in DOMAIN pkgs[p].scope
    /\ \E p \in 1..Len(pkgs) : \E n \in DOMAIN pkgs[p].scope :
         pkgs[p].scope[n].underlying = "struct"
    /\ exitCode = 1

\* The struct types declared in the loaded packages, by package and name.
StructTypes ==
    { pn \in (1..Len(pkgs)) \X NameSet :
        /\ pn[2] \in DOMAIN pkgs[pn[1]].scope
        /\ pkgs[pn[1]].scope[pn[2]].kind = "type"
        /\ pkgs[pn[1]].scope[pn[2]].underlying = "struct" }

\* A struct type has, for every method the interface requires, a method of
\* that name and signature declared on it, with either kind of receiver.
Satisfies(obj, required) ==
    \A m \in required :
      \E b \in obj.methods : b.name = m.name /\ b.sig = m.sig

SatisfyingStructs ==
    { pn \in StructTypes : Satisfies(pkgs[pn[1]].scope[pn[2]], iface.iface) }

ResultLine(pn) == <<"result", pn[2], Position(pn[1], pn[2])>>

NoImplementationsLine == <<"error: no structs implement">>

Printed(line) == \E j \in 1..Len(mainOut) : mainOut[j] = line

\* C7: once the run has ended with the interface found: if no struct of the
\* loaded packages satisfies it, the no-implementations error is reported,
\* the exit status is 1 and no result line is printed; if some struct does,
\* that error is not reported.
C7_NoImplementationsError ==
    (prog = "query" /\ InterfaceFound /\ exitCode # -1) =>
      IF SatisfyingStructs = {}
        THEN Printed(NoImplementationsLine) /\ exitCode = 1 /\ ResultLines = {}
        ELSE ~Printed(NoImplementationsLine)

\* C8: a run that reports results prints exactly one line, with its declared
\* position, for every struct type of the loaded packages that satisfies the
\* interface, and no other result line.
C8_ExactlyTheSatisfyingStructs ==
    (prog = "query" /\ mainPc = "returned") =>
      /\ \A pn \in SatisfyingStructs :
           Cardinality({ j \in ResultLines : mainOut[j] = ResultLine(pn) }) = 1
      /\ \A j \in ResultLines :
           \E pn \in SatisfyingStructs : mainOut[j] = ResultLine(pn)

\* The place of a name in sorted order.
Rank(n) == CHOOSE j \in 1..Len(ObjNames) : ObjNames[j] = n

\* C9: the result lines are in name-sorted order.
C9_ResultsSortedByName ==
    prog = "query" =>
      \A j, h \in ResultLines :
        j < h => Rank(mainOut[j][2]) <= Rank(mainOut[h][2])

\* C10: once the query result is computed, every struct type that declares
\* the interface's methods with the required signatures, with value
\* receivers, pointer receivers or both, is in the result, and a run that
\* returns has printed its line.
C10_PointerMethodSetDecides ==
    (prog = "query" /\ InterfaceFound
       /\ mainPc \in {"report", "returned", "exited"}) =>
      \A pn \in SatisfyingStructs :
        /\ \E j \in 1..Len(strctsImplementingIface) :
             /\ strctsImplementingIface[j].name = pn[2]
             /\ strctsImplementingIface[j].position = Position(pn[1], pn[2])
        /\ mainPc = "returned" => Printed(ResultLine(pn))

\* C10's case: a reported struct type whose required methods have a value
\* receiver for one and a pointer receiver for another, next to an interface
\* that requires methods.
C10_Witness ==
    /\ prog = "query" /\ InterfaceFound /\ mainPc = "returned"
    /\ iface.iface # {}
    /\ \E pn \in SatisfyingStructs :
         /\ Printed(ResultLine(pn))
         /\ \E b, c \in pkgs[pn[1]].scope[pn[2]].methods :
              b.recv = "value" /\ c.recv = "pointer"

----------------------------------------------------------------------------
(* Claims about the satisfaction checks (checked under SpecCheck).         *)

Checked == prog = "check"

\* The interface and the struct type handed to the checks.
CheckedMethods == InterfaceSpecs[checkIface]
Required == AllMethods(CheckedMethods)
CheckedStrct == TypeSpecs[checkStrct]

\* C11: an interface that requires no method is satisfied by every struct
\* type: for such an interface each of the two checks, once it has run,
\* has returned true, whatever the struct type.
C11_EmptyInterfaceSatisfied ==
    Checked /\ Required = {} =>
      /\ naiveRes \in {"", "true"}
      /\ typesRes \in {"", "true"}

\* The struct types without an embedded field: their methods are the ones
\* declared on them.
NoEmbedding(obj) == \A j \in DOMAIN obj.fields : obj.fields[j].names # <<>>

\* C12: a required method is matched by a method of the same name,
\* parameter types and result types, and by no other: for a struct type
\* without embedded fields a check returns false if some required method
\* has no such method declared on the type, and true if the interface
\* requires methods and each has one.
C12_SignatureExactness ==
    Checked /\ NoEmbedding(CheckedStrct) =>
      LET exact == Satisfies(CheckedStrct, Required)
      IN  /\ ~exact => naiveRes \in {"", "false"} /\ typesRes \in {"", "false"}
          /\ exact /\ Required # {} =>
                naiveRes \in {"", "true"} /\ typesRes \in {"", "true"}

\* The declared struct types S embeds (as T or as *T).
EmbeddedTypes(obj) == { Embedded(obj)[j].type : j \in DOMAIN Embedded(obj) }

\* S embeds r, r declares a method that the interface requires as its
\* only one, and S declares a method of that name with another signature.
Shadows(obj, r) ==
    /\ r \in EmbeddedTypes(obj)
    /\ \E c \in r.methods : \E b \in obj.methods :
         /\ b.name = c.name /\ b.sig # c.sig
         /\ Required = {Method(c.name, c.sig)}

\* C13: if S embeds R, R has method M with one signature, S declares M
\* with another, and the interface requires M with R's signature, then a
\* check returns false for S, and true for R.
C13_OwnMethodShadows ==
    Checked =>
      \A r \in EmbeddedTypes(CheckedStrct) :
        Shadows(CheckedStrct, r) =>
          /\ naiveRes # "" =>
                /\ naiveRes = "false"
                /\ implements(CheckedMethods, r.fields) = "true"
          /\ typesRes # "" =>
                /\ typesRes = "false"
                /\ Implements(NewPointer(r), Required)

\* The struct types S embeds directly, as a field of type T (not *T).
DirectlyEmbedded(obj) ==
    { TypeSpecs[obj.fields[j].type.name] :
        j \in { k \in DOMAIN obj.fields :
                  /\ obj.fields[k].names = <<>>
                  /\ obj.fields[k].type.kind = "Ident"
                  /\ obj.fields[k].type.name \in DOMAIN TypeSpecs } }

\* S declares no method with the name of a required method.
NoConflictingMethod(obj) ==
    \A b \in obj.methods : \A m \in Required : b.name # m.name

\* A check that found r to satisfy the interface has returned true for the
\* struct type it was run on.
Promoted(r) ==
    /\ naiveRes # "" /\ implements(CheckedMethods, r.fields) = "true"
         => naiveRes = "true"
    /\ typesRes # "" /\ Implements(NewPointer(r), Required)
         => typesRes = "true"

NoConflictingField(obj) ==
    /\ \A j \in DOMAIN obj.fields : \A m \in Required :
         FieldName(obj.fields[j]) # m.name
    /\ Cardinality({ j \in DOMAIN obj.fields : obj.fields[j].names = <<>> })
         = 1

RECURSIVE Reachable(_, _)
Reachable(ts, done) ==
    IF ts \subseteq done THEN done
    ELSE Reachable(UNION { EmbeddedTypes(t) : t \in ts }, done \cup ts)

\* S embeds itself, directly or through other struct types.
OnCycle(obj) == obj \in Reachable(EmbeddedTypes(obj), {})

\* C15: a check of a struct type that is on an embedding cycle ends with a
\* boolean, and finds the interface satisfied only if every required
\* method is declared on a type of the cycle or one embedded from it.
C15_CycleReturnsBoolean ==
    Checked /\ OnCycle(CheckedStrct) =>
      /\ naiveRes \in {"", "true", "false"}
      /\ typesRes \in {"", "true", "false"}
      /\ typesRes = "true" =>
            \A m \in Required :
              \E t \in Reachable({CheckedStrct}, {}) :
                \E b \in t.methods : b.name = m.name /\ b.sig = m.sig

----------------------------------------------------------------------------
(* Claims about the discovery pipeline of the scanners (checked under      *)
(* Spec).                                                                   *)

\* filepath.Walk has returned an error to main.
WalkErrorReported ==
    \/ mainPc = "walkFailed"
    \/ \E j \in DOMAIN mainOut : mainOut[j] = <<"walk error">>

\* C16: in a run whose walk reports an error, no extraction task has been
\* started, the process exits with status 1 or has not exited yet, and main
\* prints nothing but the error.
C16_WalkErrorBeforeAnyTask ==
    Scanner /\ WalkErrorReported =>
      /\ \A i \in Files : task[i].pc = "none"
      /\ exitCode \in {-1, 1}
      /\ \A j \in DOMAIN mainOut : mainOut[j] = <<"walk error">>

\* main is at a statement that reads the interface list, the struct list.
MainReadsInterfaces == Running /\ mainPc \in {"checkEmpty", "printIfaces"}
MainReadsStructs == Running /\ mainPc = "printStructs"

\* An aggregator holds a declaration it received and is at the statements
\* that read its map and write its map and its list.
IfaceAggWrites == Running /\ ifaceAgg.pc = "append"
StructAggWrites == Running /\ structAgg.pc = "append"

\* C17: no state has an aggregator about to write its list while main is
\* about to read that list, nothing ordering the two accesses.
C17_NoConcurrentAccess ==
    Scanner =>
      /\ ~(MainReadsInterfaces /\ IfaceAggWrites)
      /\ ~(MainReadsStructs /\ StructAggWrites)

\* C18: the interface list never holds two entries of one name.
C18_OneEntryPerInterfaceName ==
    Scanner =>
      \A j, k \in DOMAIN interfaces :
        interfaces[j].name = interfaces[k].name => j = k

\* The walk meets no error: the input is a set of files, parsable or not.
OnlyFiles == \A i \in Files : tree[i].kind # "walkerr"

\* main is past its barrier: wg.Wait() in the list program, the receive
\* from readIfacesCh in the inspect program.
PastBarrier ==
    mainPc \in {"checkEmpty", "printIfaces", "printStructs", "returned",
                "exited"}

\* A task is at a send on a channel that has been closed.
SendOnClosed ==
    \E i \in Files :
      /\ task[i].pc = "inspect" /\ AtDecl(i)
      /\ \/ tree[i].decls[task[i].k].kind = "interface" /\ ifacesClosed
         \/ tree[i].decls[task[i].k].kind = "struct" /\ structClosed

\* C19: on an input of files only, the pipeline never stops short of
\* main's barrier: while main is before it some goroutine can move, no
\* task sends on a closed channel, and the process ends only after main
\* has passed it.
C19_PipelineReachesBarrier ==
    Scanner /\ OnlyFiles =>
      /\ Running /\ ~PastBarrier => ENABLED NextScan
      /\ ~SendOnClosed
      /\ ~Running => PastBarrier

----------------------------------------------------------------------------
(* A claim about findInterface (checked under SpecQuery).                   *)

\* C20: findInterface's result is decided by the first package, in load
\* order, with the requested name and a path containing the requested
\* directory: the interface of that package if the name is one there, an
\* error if it is not, whatever later packages hold.
C20_FirstMatchingPackageDecides ==
    prog = "query" /\ iface # <<>> =>
      IF RequestedPkgs = {} THEN iface.err = NoPackage
      ELSE LET p == CHOOSE x \in RequestedPkgs : \A y \in RequestedPkgs : x <= y
               sc == pkgs[p].scope
           IN  IF /\ interfaceName \in DOMAIN sc
                  /\ sc[interfaceName].underlying = "interface"
                 THEN /\ iface.err = "nil"
                      /\ iface.pkg = p
                      /\ iface.iface = sc[interfaceName].methods
                 ELSE iface.err = NoInterface

\* C20's case: two packages pass the test, the first has no interface of
\* the requested name, the second has one, and findInterface has returned
\* the error.
C20_Witness ==
    /\ prog = "query" /\ iface # <<>> /\ iface.err = NoInterface
    /\ Cardinality(RequestedPkgs) = 2
    /\ \E p \in RequestedPkgs :
         /\ interfaceName \in DOMAIN pkgs[p].scope
         /\ pkgs[p].scope[interfaceName].underlying = "interface"

====
